---- MODULE Spec2Model ----
(***************************************************************************)
(* A model of the fastdns wire codec: the pooled Message (ParseMessage,    *)
(* DecodeName, VisitResourceRecords, SetQustion, AppendMessage,            *)
(* AcquireMessage / ReleaseMessage) and the legacy Request (ParseRequest,  *)
(* AppendRequest).                                                         *)
(*                                                                         *)
(* Bytes are integers 0..255 and a Go slice is modelled by its contents;   *)
(* Go indices are 0-based, TLA+ sequences 1-based, so Go's s[i] is         *)
(* At(s, i) below.  A run-time panic (index or slice bound out of range)   *)
(* is the result "panic"; a loop that can never end is the result "hang".  *)
(***************************************************************************)
EXTENDS Integers, Sequences, FiniteSets, TLC

VARIABLES
    msgs,   \* the Message objects ever made by msgPool.New, by identity
    made,   \* identities of the objects made so far
    pool,   \* identities of the objects lying in msgPool
    req,    \* a legacy Request object
    buf,    \* the caller's packet buffer, handed to the parsers as payload
    last    \* the last call: its arguments and what it returned

vars == <<msgs, made, pool, req, buf, last>>

----------------------------------------------------------------------------
(* Bounds of the model *)

\* number of Message objects the pool may create
NumMsgs == 1
\* longest run of free bytes enumerated for a question name
MaxName == 4
\* number of resource records enumerated in an answer section
MaxRecords == 2

----------------------------------------------------------------------------
(* Bytes, slices *)

Byte == 0..255

\* Go's s[i]
At(s, i) == s[i + 1]

\* Go's s[lo:hi] within len(s)
Slice(s, lo, hi) == SubSeq(s, lo + 1, hi)

\* uint16(hi)<<8 | uint16(lo)
U16(hi, lo) == hi * 256 + lo

\* byte(x >> 8), byte(x & 0xff)
Hi(x) == (x \div 256) % 256
Lo(x) == x % 256

\* b&0b11000000 == 0b11000000
IsPointer(b) == b >= 192

\* int(b&0b00111111)<<8 + int(c)
PointerOffset(b, c) == (b % 64) * 256 + c

\* the byte '.'
Dot == 46

RECURSIVE Concat(_)
Concat(ss) == IF ss = <<>> THEN <<>> ELSE Head(ss) \o Concat(Tail(ss))

\* all sequences over S of length at most n
RECURSIVE SeqsUpTo(_, _)
SeqsUpTo(S, n) ==
    IF n = 0 THEN {<<>>}
    ELSE LET shorter == SeqsUpTo(S, n - 1)
         IN  shorter \cup {Append(s, x) : s \in {t \in shorter : Len(t) = n - 1}, x \in S}

----------------------------------------------------------------------------
(* The Message object *)

\* capacities given by msgPool.New
RawCap == 1024
DomainCap == 256

\* a slice header that views no array (Go's nil slice)
NilView == [buf |-> "nil", off |-> 0, len |-> 0]

\* msgPool.New: new(Message) with Raw and Domain empty and pre-sized.
\* Raw is the visible slice; RawSpare holds what earlier, longer contents
\* left in Raw's backing array past len(Raw) (the rest of the array, up to
\* RawCap, is zero).  Name is a view: onto Raw's array or onto the caller's
\* buffer.
NewMessage ==
    [Raw |-> <<>>, RawSpare |-> <<>>, RawCap |-> RawCap,
     Domain |-> <<>>, DomainCap |-> DomainCap,
     ID |-> 0, Bits |-> 0,
     QDCount |-> 0, ANCount |-> 0, NSCount |-> 0, ARCount |-> 0,
     Name |-> NilView, Type |-> 0, Class |-> 0]

\* capacity after append made the slice n long (never below n)
Grow(cap, n) == IF n > cap THEN n ELSE cap

\* the backing array of m.Raw as far as it was ever written
RawArray(m) == m.Raw \o m.RawSpare

\* byte i of Raw's backing array, for i < cap(m.Raw)
ArrayAt(m, i) == IF i < Len(RawArray(m)) THEN At(RawArray(m), i) ELSE 0

\* append(m.Raw[:0], p...): p overwrites the head of the array, the old
\* contents past len(p) stay behind it
AppendRaw0(m, p) ==
    [m EXCEPT !.Raw = p,
              !.RawSpare = SubSeq(RawArray(m), Len(p) + 1, Len(RawArray(m))),
              !.RawCap = Grow(m.RawCap, Len(p))]

\* the bytes msg.Question.Name views, b being the caller's buffer
NameBytes(m, b) ==
    LET v == m.Name
        arr == IF v.buf = "payload" THEN b ELSE RawArray(m)
    IN  IF v.buf = "nil" THEN <<>>
        ELSE [k \in 1..v.len |->
                 IF v.off + k <= Len(arr) THEN arr[v.off + k] ELSE 0]

\* reqPool.New: new(Request) with an empty pre-sized Question.Name
NewRequest ==
    [ID |-> 0, QR |-> 0, Opcode |-> 0, AA |-> 0, TC |-> 0, RD |-> 0, RA |-> 0,
     Z |-> 0, RCODE |-> 0,
     QDCount |-> 0, ANCount |-> 0, NSCount |-> 0, ARCount |-> 0,
     Name |-> <<>>, Type |-> 0, Class |-> 0]

----------------------------------------------------------------------------
(* ParseMessage *)

\* for i, b = range payload { if b == 0 { break } }: the value i is left with
\* (from index i on: the first index holding a zero, or else the last index)
ScanZeroFrom(q, i) ==
    LET stops == {k \in i..(Len(q) - 1) : k = Len(q) - 1 \/ At(q, k) = 0}
    IN  CHOOSE k \in stops : \A j \in stops : k <= j

ScanZero(q) == IF q = <<>> THEN 0 ELSE ScanZeroFrom(q, 0)

\* a zero-length name is refused (mutant of QuestionTooShort: the i == 0
\* test left out, as ParseRequest has it)
QuestionTooShortNoEmpty(i, n) == i + 5 > n

\* if i == 0 || i+5 > len(payload)
QuestionTooShort(i, n) == i = 0 \/ i + 5 > n

\* for payload[i] != 0 { j := int(payload[i]); payload[i] = '.'; i += j + 1 }
\* on the working buffer w; payload[i] panics when i >= len(payload)
RECURSIVE DotLoop(_, _)
DotLoop(w, i) ==
    IF i >= Len(w) THEN [ok |-> FALSE, w |-> w]
    ELSE IF At(w, i) = 0 THEN [ok |-> TRUE, w |-> w]
    ELSE DotLoop([w EXCEPT ![i + 1] = Dot], i + At(w, i) + 1)

\* what dst.Domain shows after w was written over the head of its array
\* without dst.Domain being assigned (the loop panicked)
OverwrittenDomain(m, w) ==
    IF Len(w) > m.DomainCap THEN m.Domain
    ELSE [k \in 1..Len(m.Domain) |-> IF k <= Len(w) THEN w[k] ELSE m.Domain[k]]

ParseMessage(m, payload, copying) ==
    LET m1 == IF copying THEN AppendRaw0(m, payload) ELSE m
        src == IF copying THEN "Raw" ELSE "payload"
    IN
    IF Len(payload) < 12 THEN [msg |-> m1, err |-> "ErrInvalidHeader"]
    ELSE
    LET m2 == [m1 EXCEPT
                 !.ID = U16(At(payload, 0), At(payload, 1)),
                 !.Bits = U16(At(payload, 2), At(payload, 3)),
                 !.QDCount = U16(At(payload, 4), At(payload, 5)),
                 !.ANCount = U16(At(payload, 6), At(payload, 7)),
                 !.NSCount = U16(At(payload, 8), At(payload, 9)),
                 !.ARCount = U16(At(payload, 10), At(payload, 11))]
    IN
    IF m2.QDCount # 1 THEN [msg |-> m2, err |-> "ErrInvalidHeader"]
    ELSE
    LET q == Slice(payload, 12, Len(payload))
        i == ScanZero(q)
    IN
    IF QuestionTooShort(i, Len(q)) THEN [msg |-> m2, err |-> "ErrInvalidQuestion"]
    ELSE
    LET name == Slice(q, 0, i + 1)
        m3 == [m2 EXCEPT
                 !.Name = [buf |-> src, off |-> 12, len |-> i + 1],
                 !.Class = U16(At(q, i + 3), At(q, i + 4)),
                 !.Type = U16(At(q, i + 1), At(q, i + 2))]
        w0 == Slice(name, 1, Len(name))
        r == DotLoop(w0, At(name, 0))
    IN
    IF ~r.ok
    THEN [msg |-> [m3 EXCEPT !.Domain = OverwrittenDomain(m3, r.w)], err |-> "panic"]
    ELSE [msg |-> [m3 EXCEPT !.Domain = Slice(r.w, 0, Len(r.w) - 1),
                             !.DomainCap = Grow(m3.DomainCap, Len(r.w))],
          err |-> "nil"]

----------------------------------------------------------------------------
(* Packets the caller's buffer may hold *)

\* the 12 header bytes of a packet
Hdr(id, bits, qd, an, ns, ar) ==
    <<Hi(id), Lo(id), Hi(bits), Lo(bits), Hi(qd), Lo(qd),
      Hi(an), Lo(an), Hi(ns), Lo(ns), Hi(ar), Lo(ar)>>

\* a plain query header: ID 0x1234, RD = 1, QDCOUNT = 1
QueryHdr == Hdr(4660, 256, 1, 0, 0, 0)

\* headers over every field: ids, flag words, counts (QDCOUNT 257 has low
\* byte 1)
Headers ==
    {Hdr(id, bits, qd, an, ns, ar) :
        id \in {0, 4660, 65535}, bits \in {0, 256, 34179, 65535, 112},
        qd \in {0, 1, 2, 257}, an \in {0, 1, 258}, ns \in {0, 3}, ar \in {0, 1029}}

\* bytes a name is enumerated over: the terminator, label lengths 1 and 2,
\* a letter, and the first byte of a compression pointer
NameAlphabet == {0, 1, 2, 97, 192}

\* what may follow the enumerated bytes: nothing, a cut QTYPE/QCLASS, whole
\* ones (with and without zero bytes), and one with a byte to spare
Tails ==
    {<<>>, <<1>>, <<0, 1, 0>>, <<0, 1, 0, 1>>, <<1, 2, 2, 1>>, <<0, 28, 0, 1, 97>>}

\* the question "a" A IN
QuestionA == <<1, 97, 0, 0, 1, 0, 1>>

\* the question "a.bc" AAAA IN
QuestionABC == <<1, 97, 2, 98, 99, 0, 0, 28, 0, 1>>

ParseInputs ==
    {SubSeq(QueryHdr, 1, k) : k \in 0..11}
    \cup {QueryHdr \o n \o t : n \in SeqsUpTo(NameAlphabet, MaxName), t \in Tails}
    \cup {h \o q : h \in Headers, q \in {<<>>, QuestionA, QuestionABC}}

----------------------------------------------------------------------------
(* Calls *)

NoCall == [op |-> "none", m |-> 0, copying |-> FALSE, err |-> "nil", out |-> <<>>]

\* a panic aborts the process and a hang never returns: nothing follows
Running == last.err \notin {"panic", "hang"}

\* the caller holds m: it was acquired and not released
Held(m) == m \in made /\ m \notin pool

\* err := ParseMessage(msgs[m], buf, copying)
DoParseMessage(m, copying) ==
    /\ Running
    /\ Held(m)
    /\ LET r == ParseMessage(msgs[m], buf, copying)
       IN  /\ msgs' = [msgs EXCEPT ![m] = r.msg]
           /\ last' = [op |-> "ParseMessage", m |-> m, copying |-> copying,
                       err |-> r.err, out |-> <<>>]
    /\ UNCHANGED <<made, pool, req, buf>>

\* a message as an earlier request left it
UsedMessage == ParseMessage(NewMessage, Hdr(7, 34179, 1, 1, 0, 0) \o QuestionABC, TRUE).msg

InitParse ==
    /\ msgs \in [1..NumMsgs -> {NewMessage}] \cup {[k \in 1..NumMsgs |-> UsedMessage]}
    /\ made = {1}
    /\ pool = {}
    /\ req = NewRequest
    /\ buf \in ParseInputs
    /\ last = NoCall

NextParse == \E copying \in BOOLEAN : DoParseMessage(1, copying)

\* ParseMessage applied to every enumerated payload, in both copy modes
SpecParse == InitParse /\ [][NextParse]_vars

----------------------------------------------------------------------------
(* What a packet says, read by RFC 1035 and not by the code *)

BadName == [ok |-> FALSE, labels |-> <<>>, end |-> 0]

\* the literal labels of the name starting at index pos of p, walked length
\* byte by length byte up to the zero length byte (at index end)
RECURSIVE LabelsAt(_, _)
LabelsAt(p, pos) ==
    IF pos >= Len(p) THEN BadName
    ELSE LET n == At(p, pos)
         IN  IF n = 0 THEN [ok |-> TRUE, labels |-> <<>>, end |-> pos]
             ELSE IF n > 63 \/ pos + n >= Len(p) THEN BadName
             ELSE LET r == LabelsAt(p, pos + n + 1)
                  IN  IF r.ok
                      THEN [r EXCEPT !.labels = <<Slice(p, pos + 1, pos + n + 1)>> \o r.labels]
                      ELSE BadName

\* labels joined by '.'
RECURSIVE JoinDots(_)
JoinDots(ls) ==
    IF ls = <<>> THEN <<>>
    ELSE IF Len(ls) = 1 THEN ls[1]
    ELSE ls[1] \o <<Dot>> \o JoinDots(Tail(ls))

\* a payload of at least 12 bytes with QDCOUNT = 1, a non-empty run of
\* literal labels, its terminator and at least 4 more bytes
WellFormedQuery(p) ==
    /\ Len(p) >= 12
    /\ U16(At(p, 4), At(p, 5)) = 1
    /\ LabelsAt(p, 12).ok
    /\ LabelsAt(p, 12).labels # <<>>
    /\ Len(p) >= LabelsAt(p, 12).end + 5

\* some label of the question name holds a zero byte
ZeroInLabel(p) == \E k \in 1..Len(LabelsAt(p, 12).labels) :
                     \E j \in 1..Len(LabelsAt(p, 12).labels[k]) :
                        LabelsAt(p, 12).labels[k][j] = 0

ParsedAsWritten(m, p) ==
    LET n == LabelsAt(p, 12)
    IN  /\ m.Domain = JoinDots(n.labels)
        /\ NameBytes(m, p) = Slice(p, 12, n.end + 1)
        /\ m.Type = U16(At(p, n.end + 1), At(p, n.end + 2))
        /\ m.Class = U16(At(p, n.end + 3), At(p, n.end + 4))
        /\ m.ID = U16(At(p, 0), At(p, 1))
        /\ m.Bits = U16(At(p, 2), At(p, 3))
        /\ m.QDCount = U16(At(p, 4), At(p, 5))
        /\ m.ANCount = U16(At(p, 6), At(p, 7))
        /\ m.NSCount = U16(At(p, 8), At(p, 9))
        /\ m.ARCount = U16(At(p, 10), At(p, 11))

\* C1: ParseMessage of a well-formed single-question payload returns nil, in
\* both copy modes and whatever dst held, and leaves Domain the labels joined
\* by '.', Question.Name the on-wire name with its terminator, Type, Class,
\* ID, flag word and counts the big-endian fields of the payload.
C1_ParseWellFormed ==
    (last.op = "ParseMessage" /\ WellFormedQuery(buf)) =>
        (last.err = "nil" /\ ParsedAsWritten(msgs[last.m], buf))

\* the same for names whose labels hold no zero byte
ParseWellFormedNoZero ==
    (last.op = "ParseMessage" /\ WellFormedQuery(buf) /\ ~ZeroInLabel(buf)) =>
        (last.err = "nil" /\ ParsedAsWritten(msgs[last.m], buf))

\* C1 witness of the lemma: a two-label name without zero bytes was parsed
ParseWellFormedNoZeroSeen ==
    /\ last.op = "ParseMessage" /\ ~last.copying /\ last.err = "nil"
    /\ WellFormedQuery(buf) /\ ~ZeroInLabel(buf)
    /\ Len(LabelsAt(buf, 12).labels) = 2

\* the payload is shorter than a header or its QDCOUNT is not 1
HeaderInvalid(p) == Len(p) < 12 \/ U16(At(p, 4), At(p, 5)) # 1

\* no zero byte from offset 12 on
NoTerminator(p) == \A k \in 12..(Len(p) - 1) : At(p, k) # 0

\* the byte at offset 12 is zero or absent
EmptyName(p) == Len(p) <= 12 \/ At(p, 12) = 0

\* offset of the first zero byte from offset 12 on
FirstZero(p) ==
    CHOOSE k \in 12..(Len(p) - 1) :
        At(p, k) = 0 /\ \A j \in 12..(k - 1) : At(p, j) # 0

\* fewer than 5 bytes remain counting from the name's terminator
CutQuestion(p) == ~NoTerminator(p) /\ Len(p) - FirstZero(p) < 5

\* C2: ParseMessage returns ErrInvalidHeader for a payload under 12 bytes or
\* with QDCOUNT # 1 whatever follows the header, and, the header being
\* valid, ErrInvalidQuestion when no zero byte follows offset 12, when the
\* name is zero-length, and when fewer than 5 bytes remain from the
\* terminator on.
C2_ParseErrors ==
    last.op = "ParseMessage" =>
        /\ HeaderInvalid(buf) => last.err = "ErrInvalidHeader"
        /\ (~HeaderInvalid(buf) /\ (NoTerminator(buf) \/ EmptyName(buf) \/ CutQuestion(buf)))
              => last.err = "ErrInvalidQuestion"

\* C2 witness: a valid header, a name of one label and a QCLASS cut short,
\* refused as an invalid question
C2_CutQuestionRefused ==
    /\ last.op = "ParseMessage"
    /\ ~HeaderInvalid(buf) /\ ~EmptyName(buf) /\ CutQuestion(buf)
    /\ Len(buf) - FirstZero(buf) = 4
    /\ last.err = "ErrInvalidQuestion"

\* C3: for every payload ParseMessage returns nil or one of its error
\* values; it never indexes out of range.
C3_ParseNeverPanics ==
    last.op = "ParseMessage" =>
        last.err \in {"nil", "ErrInvalidHeader", "ErrInvalidQuestion"}

----------------------------------------------------------------------------
(* SetQustion *)

\* EncodeDomain(dst, domain): dst with the domain appended as length-prefixed
\* labels, split on '.', and a terminal zero byte
RECURSIVE EncodeLabels(_, _)
EncodeLabels(domain, label) ==
    IF domain = <<>> THEN <<Len(label)>> \o label \o <<0>>
    ELSE IF Head(domain) = Dot
         THEN <<Len(label)>> \o label \o EncodeLabels(Tail(domain), <<>>)
         ELSE EncodeLabels(Tail(domain), Append(label, Head(domain)))

EncodeDomain(dst, domain) == dst \o EncodeLabels(domain, <<>>)

\* the flag word set to that of a plain query (mutant of QueryBits: the
\* whole word assigned instead of masked)
QueryBitsAssigned(bits) == 256

\* msg.Header.Bits &= 0b0111111111110000; msg.Header.Bits |= 0b0000000100000000
QueryBits(bits) ==
    LET masked == (bits % 32768) - (bits % 16)
    IN  IF (masked \div 256) % 2 = 1 THEN masked ELSE masked + 256

\* msg.SetQustion(domain, typ, class), id being what fastrandn(65536) gave
SetQustion(m, domain, typ, class, id) ==
    LET bits == QueryBits(m.Bits)
        header == <<Hi(id), Lo(id), Hi(bits), Lo(bits), 0, 1, 0, 0, 0, 0, 0, 0>>
        raw == EncodeDomain(header, domain) \o <<Hi(typ), Lo(typ)>> \o <<Hi(class), Lo(class)>>
    IN  [AppendRaw0(m, raw) EXCEPT
            !.ID = id,
            !.Bits = bits,
            !.QDCount = 1,
            !.ANCount = 0,
            !.NSCount = 0,
            !.ARCount = 0,
            !.Name = [buf |-> "Raw", off |-> Len(header), len |-> Len(domain) + 2],
            !.Type = typ,
            !.Class = class,
            !.Domain = domain,
            !.DomainCap = Grow(m.DomainCap, Len(domain))]

----------------------------------------------------------------------------
(* The pool, and the calls of a request/response cycle *)

\* msgPool.Get() handing out a pooled object x reset to empty buffers (mutant
\* of PoolGet)
PoolGetReset(x) == [x EXCEPT !.Raw = <<>>, !.Domain = <<>>]

\* msgPool.Get() handing out a pooled object x: the object as it was put
PoolGet(x) == x

\* AcquireMessage(): an object lying in the pool, or, the pool having none to
\* give (it is empty, or sync.Pool dropped or does not see them), a new one
AcquireMessage(m) ==
    /\ Running
    /\ \/ /\ m \in pool
          /\ pool' = pool \ {m}
          /\ msgs' = [msgs EXCEPT ![m] = PoolGet(msgs[m])]
          /\ made' = made
       \/ /\ m \notin made
          /\ \A k \in 1..(m - 1) : k \in made
          /\ made' = made \cup {m}
          /\ msgs' = [msgs EXCEPT ![m] = NewMessage]
          /\ pool' = pool
    /\ last' = [op |-> "AcquireMessage", m |-> m, copying |-> FALSE,
                err |-> "nil", out |-> <<>>]
    /\ UNCHANGED <<req, buf>>

\* ReleaseMessage(msgs[m])
ReleaseMessage(m) ==
    /\ Running
    /\ Held(m)
    /\ pool' = pool \cup {m}
    /\ last' = [op |-> "ReleaseMessage", m |-> m, copying |-> FALSE,
                err |-> "nil", out |-> <<>>]
    /\ UNCHANGED <<msgs, made, req, buf>>

\* msgs[m].SetQustion(domain, typ, class)
DoSetQustion(m, domain, typ, class, id) ==
    /\ Running
    /\ Held(m)
    /\ msgs' = [msgs EXCEPT ![m] = SetQustion(msgs[m], domain, typ, class, id)]
    /\ last' = [op |-> "SetQustion", m |-> m, copying |-> FALSE, err |-> "nil",
                out |-> <<domain, <<typ, class>>>>]
    /\ UNCHANGED <<made, pool, req, buf>>

\* the caller reads the next packet into its buffer
Receive(p) ==
    /\ Running
    /\ buf # p
    /\ buf' = p
    /\ last' = [op |-> "Receive", m |-> 0, copying |-> FALSE, err |-> "nil", out |-> <<>>]
    /\ UNCHANGED <<msgs, made, pool, req>>

\* a response to "a.bc" with flags QR AA RD RA and RCODE 3, a query for "a",
\* and a packet cut inside its header
Packets ==
    {Hdr(7, 34179, 1, 1, 2, 3) \o QuestionABC, QueryHdr \o QuestionA, <<0, 7, 1>>}

\* the domains "a" and "bc.d"
Domains == {<<97>>, <<98, 99, Dot, 100>>}

Init ==
    /\ msgs = [k \in 1..NumMsgs |-> NewMessage]
    /\ made = {}
    /\ pool = {}
    /\ req = NewRequest
    /\ buf = <<>>
    /\ last = NoCall

Next ==
    \/ \E p \in Packets : Receive(p)
    \/ \E m \in 1..NumMsgs : AcquireMessage(m)
    \/ \E m \in 1..NumMsgs : ReleaseMessage(m)
    \/ \E m \in 1..NumMsgs, copying \in BOOLEAN : DoParseMessage(m, copying)
    \/ \E m \in 1..NumMsgs : DoSetQustion(m, <<98, 99, Dot, 100>>, 1, 1, 48879)

\* acquire, parse or set a question, release, in any order and number
Spec == Init /\ [][Next]_vars

\* ids fastrandn may give, and query types
Ids == {0, 48879}
Types == {1, 28}

InitSetQ ==
    /\ msgs = [k \in 1..NumMsgs |-> NewMessage]
    /\ made = {1}
    /\ pool = {}
    /\ req = NewRequest
    /\ buf \in {h \o QuestionABC : h \in {g \in Headers : g[2] = 0}}
    /\ last = NoCall

NextSetQ ==
    \/ \E copying \in BOOLEAN : DoParseMessage(1, copying)
    \/ \E d \in Domains, t \in Types, id \in Ids : DoSetQustion(1, d, t, 1, id)

\* SetQustion on a fresh message and on one that parsed any header
SpecSetQ == InitSetQ /\ [][NextSetQ]_vars

----------------------------------------------------------------------------
(* The flags of the flag word, by the layout QR|Opcode|AA|TC|RD|RA|Z|RCODE *)

FlagQR(bits) == (bits \div 32768) % 2
FlagOpcode(bits) == (bits \div 2048) % 16
FlagAA(bits) == (bits \div 1024) % 2
FlagTC(bits) == (bits \div 512) % 2
FlagRD(bits) == (bits \div 256) % 2
FlagRA(bits) == (bits \div 128) % 2
FlagZ(bits) == (bits \div 16) % 8
FlagRCODE(bits) == bits % 16

\* C7: after every successful ParseMessage, copying or not, dst.Raw holds
\* exactly the bytes of payload and Question.Name is a view of bytes inside
\* Raw (so nothing of an earlier packet is left in Raw).
C7_RawHoldsPayload ==
    (last.op = "ParseMessage" /\ last.err = "nil") =>
        LET m == msgs[last.m]
        IN  /\ m.Raw = buf
            /\ NameBytes(m, buf) = Slice(m.Raw, m.Name.off, m.Name.off + m.Name.len)

\* what SetQustion leaves apart from the flag word: counts, question, Domain
\* and the 12 header bytes at the start of Raw
QuestionSet(m, domain, typ, class) ==
    /\ m.QDCount = 1 /\ m.ANCount = 0 /\ m.NSCount = 0 /\ m.ARCount = 0
    /\ m.Type = typ /\ m.Class = class /\ m.Domain = domain
    /\ Len(m.Raw) >= 12
    /\ SubSeq(m.Raw, 1, 12) = Hdr(m.ID, m.Bits, m.QDCount, m.ANCount, m.NSCount, m.ARCount)

\* C8: after SetQustion(domain, typ, class) on any message, fresh or
\* recycled, the flag word is exactly 0x0100 (QR = 0, RD = 1, RCODE = 0 and
\* AA, TC, RA, Opcode, Z zero), QDCOUNT = 1, the other counts 0, the question
\* and Domain as given, and the header bytes of Raw encode those values.
C8_SetQustionFlagWord ==
    last.op = "SetQustion" =>
        /\ msgs[last.m].Bits = 256
        /\ QuestionSet(msgs[last.m], last.out[1], last.out[2][1], last.out[2][2])

\* C8 as amended: SetQustion sets QR = 0, RD = 1, RCODE = 0 and leaves
\* Opcode, AA, TC, RA and Z as the message held them (zero on a fresh
\* message); counts, question, Domain and header bytes as claimed.
C8_SetQustionKeepsOtherFlags ==
    [][last'.op = "SetQustion" =>
          LET old == msgs[last'.m].Bits
              new == msgs'[last'.m].Bits
          IN  /\ FlagQR(new) = 0 /\ FlagRD(new) = 1 /\ FlagRCODE(new) = 0
              /\ FlagOpcode(new) = FlagOpcode(old)
              /\ FlagAA(new) = FlagAA(old)
              /\ FlagTC(new) = FlagTC(old)
              /\ FlagRA(new) = FlagRA(old)
              /\ FlagZ(new) = FlagZ(old)
              /\ QuestionSet(msgs'[last'.m], last'.out[1], last'.out[2][1], last'.out[2][2])
      ]_vars

\* C8 witness: SetQustion acted on a message that had parsed a response with
\* Opcode, AA, TC, RA and Z all set
C8_StaleFlagsKept ==
    /\ last.op = "SetQustion"
    /\ msgs[last.m].Bits = 32752

----------------------------------------------------------------------------
(* VisitResourceRecords *)

\* for j, b := range payload { ... }, payload being Raw[pos:]: the length of
\* the name found (j+2 at the first byte with both top bits set, j+1 at the
\* first zero byte), 0 when the bytes end first (name stays nil)
RECURSIVE ScanName(_, _, _)
ScanName(raw, pos, j) ==
    IF pos + j >= Len(raw) THEN 0
    ELSE IF IsPointer(At(raw, pos + j)) THEN j + 2
    ELSE IF At(raw, pos + j) = 0 THEN j + 1
    ELSE ScanName(raw, pos, j + 1)

\* uint32(b0)<<24 | uint32(b1)<<16 | uint32(b2)<<8 | uint32(b3), kept as its
\* high and low 16 bits
U32(b0, b1, b2, b3) == <<U16(b0, b1), U16(b2, b3)>>

\* the loop over the records, payload being Raw[pos:], i the records done,
\* calls what f was given so far; f returns false on its stop-th call
RECURSIVE VisitLoop(_, _, _, _, _)
VisitLoop(m, pos, i, stop, calls) ==
    IF i >= m.ANCount THEN [err |-> "nil", calls |-> calls]
    ELSE
    LET raw == m.Raw
        n == ScanName(raw, pos, 0)
    IN
    IF n = 0 THEN [err |-> "ErrInvalidAnswer", calls |-> calls]
    ELSE IF pos + n > Len(raw) THEN [err |-> "panic", calls |-> calls]
    ELSE
    LET p == pos + n
    IN
    IF Len(raw) - p < 10 THEN [err |-> "panic", calls |-> calls]
    ELSE
    LET length == U16(At(raw, p + 8), At(raw, p + 9))
        high == (10 + length) % 65536
    IN
    IF high < 10 \/ p + high > Len(raw) THEN [err |-> "panic", calls |-> calls]
    ELSE
    LET rr == [name |-> Slice(raw, pos, p),
               typ |-> U16(At(raw, p), At(raw, p + 1)),
               class |-> U16(At(raw, p + 2), At(raw, p + 3)),
               ttl |-> U32(At(raw, p + 4), At(raw, p + 5), At(raw, p + 6), At(raw, p + 7)),
               data |-> Slice(raw, p + 10, p + high)]
    IN
    IF Len(calls) + 1 = stop THEN [err |-> "nil", calls |-> Append(calls, rr)]
    ELSE VisitLoop(m, p + high, i + 1, stop, Append(calls, rr))

\* msg.VisitResourceRecords(f)
VisitResourceRecords(m, stop) ==
    IF m.ANCount = 0 THEN [err |-> "ErrInvalidAnswer", calls |-> <<>>]
    ELSE IF 16 + m.Name.len > Len(m.Raw) THEN [err |-> "panic", calls |-> <<>>]
    ELSE VisitLoop(m, 16 + m.Name.len, 0, stop, <<>>)

----------------------------------------------------------------------------
(* DecodeName *)

\* the inner loop, for i := offset; i < len(msg.Raw); { ... }: how it ends
\* ("zero": terminator found, "pointer": offset is the next hop, "end": i ran
\* past Raw with offset untouched) and dst after it
RECURSIVE ChaseLabels(_, _, _)
ChaseLabels(m, i, dst) ==
    IF i >= Len(m.Raw) THEN [kind |-> "end", dst |-> dst, offset |-> 0]
    ELSE
    LET b == At(m.Raw, i)
    IN
    IF b = 0 THEN [kind |-> "zero", dst |-> Append(dst, 0), offset |-> 0]
    ELSE IF IsPointer(b)
    THEN IF i + 1 >= Len(m.Raw) THEN [kind |-> "panic", dst |-> dst, offset |-> 0]
         ELSE [kind |-> "pointer", dst |-> dst, offset |-> PointerOffset(b, At(m.Raw, i + 1))]
    ELSE IF i + b + 1 > m.RawCap THEN [kind |-> "panic", dst |-> dst, offset |-> 0]
    ELSE ChaseLabels(m, i + b + 1, dst \o [k \in 1..(b + 1) |-> ArrayAt(m, i + k - 1)])

\* for offset != 0 { ... }: seen are the offsets the loop already started
\* from.  Raw does not change, so a pass that starts where an earlier one did,
\* or that ends with offset untouched, repeats for ever
RECURSIVE Chase(_, _, _, _)
Chase(m, offset, dst, seen) ==
    IF offset = 0 THEN [err |-> "nil", dst |-> dst]
    ELSE IF offset \in seen THEN [err |-> "hang", dst |-> dst]
    ELSE
    LET r == ChaseLabels(m, offset, dst)
    IN  IF r.kind = "zero" THEN [err |-> "nil", dst |-> r.dst]
        ELSE IF r.kind = "end" THEN [err |-> "hang", dst |-> r.dst]
        ELSE IF r.kind = "panic" THEN [err |-> "panic", dst |-> r.dst]
        ELSE Chase(m, r.offset, r.dst, seen \cup {offset})

\* DecodeName past its fast path: the name copied to dst, its pointer chased
\* through msg.Raw, and the labels turned into dotted text
DecodeNameGeneral(m, dst, name) ==
    LET pos == Len(dst)
        literal == At(name, Len(name) - 1) = 0
        dst1 == IF literal THEN dst \o name ELSE dst \o Slice(name, 0, Len(name) - 2)
        offset == IF literal THEN 0
                  ELSE PointerOffset(At(name, Len(name) - 2), At(name, Len(name) - 1))
        c == Chase(m, offset, dst1, {})
    IN
    IF c.err # "nil" THEN [err |-> c.err, out |-> c.dst]
    ELSE
    LET d == DotLoop(c.dst, pos)
    IN  IF ~d.ok \/ pos + 1 > Len(d.w) - 1 THEN [err |-> "panic", out |-> d.w]
        ELSE [err |-> "nil", out |-> Slice(d.w, 0, pos) \o Slice(d.w, pos + 1, Len(d.w) - 1)]

\* msg.DecodeName(dst, name)
DecodeName(m, dst, name) ==
    IF Len(name) < 2 THEN [err |-> "nil", out |-> dst]
    ELSE IF At(name, 1) = 12 /\ At(name, 0) = 192 THEN [err |-> "nil", out |-> dst \o m.Domain]
    ELSE DecodeNameGeneral(m, dst, name)

----------------------------------------------------------------------------
(* Responses with an answer section *)

\* record names: a pointer to the question name, the root, a literal name, a
\* label then a pointer, a pointer to the record's own first offset (19, after
\* the header and the 7 bytes of QuestionA), a pointer to the root name's
\* zero byte (14), a label holding a zero byte, a label holding the bytes of
\* a UTF-8 letter
RecordNames ==
    {<<192, 12>>, <<0>>, <<1, 98, 0>>, <<1, 98, 192, 12>>, <<192, 19>>, <<192, 14>>,
     <<1, 0, 0>>, <<2, 195, 169, 0>>}

\* TYPE A, CLASS IN, then a ttl, RDLENGTH and RDATA
RecordBodies ==
    {<<0, 1, 0, 1>> \o <<0, 0, 1, 44>> \o <<0, 4>> \o <<8, 8, 8, 8>>,
     <<0, 16, 0, 1>> \o <<255, 255, 255, 255>> \o <<0, 0>>}

Records == {n \o b : n \in RecordNames, b \in RecordBodies}

\* records that may follow the first one: an A record named by a pointer, a
\* TXT record with a literal name, an A record whose name ends in a pointer
FollowRecords ==
    {<<192, 12>> \o <<0, 1, 0, 1>> \o <<0, 0, 1, 44>> \o <<0, 4>> \o <<8, 8, 4, 4>>,
     <<1, 98, 0>> \o <<0, 16, 0, 1>> \o <<255, 255, 255, 255>> \o <<0, 0>>,
     <<1, 98, 192, 12>> \o <<0, 1, 0, 1>> \o <<0, 0, 0, 0>> \o <<0, 1>> \o <<192>>}

\* all prefixes of a byte sequence
Prefixes(s) == {SubSeq(s, 1, k) : k \in 0..Len(s)}

\* a response header with ANCOUNT an
ResponseHdr(an) == Hdr(4660, 33152, 1, an, 0, 0)

\* answer sections of up to MaxRecords records, whole and cut at every byte
AnswerSections ==
    UNION {Prefixes(r \o Concat(rs)) :
              r \in Records, rs \in SeqsUpTo(FollowRecords, MaxRecords - 1)}

RecordPackets ==
    {ResponseHdr(an) \o QuestionA \o a : an \in 0..(MaxRecords + 1), a \in AnswerSections}

\* names handed to DecodeName: pointers to the start of the packet, to the
\* question name, into it, to the first record and into it, to the last
\* bytes of Raw and past its end; a literal name; a label then a pointer
DecodeNames(m) ==
    {<<192, k>> : k \in {0, 12, 14, 19, 20, Len(m.Raw) - 1, Len(m.Raw), Len(m.Raw) + 1} \cap Byte}
    \cup {<<1, 98, 0>>, <<1, 98, 192, 12>>}

\* err := msgs[m].VisitResourceRecords(f), f returning false on its stop-th
\* call (never, when stop = 0)
DoVisitResourceRecords(m, stop) ==
    /\ Running
    /\ Held(m)
    /\ LET r == VisitResourceRecords(msgs[m], stop)
       IN  last' = [op |-> "VisitResourceRecords", m |-> m, copying |-> FALSE,
                    err |-> r.err, out |-> <<stop, r.calls>>]
    /\ UNCHANGED <<msgs, made, pool, req, buf>>

\* msgs[m].DecodeName(dst, name) with an empty dst
DoDecodeName(m, name) ==
    /\ Running
    /\ Held(m)
    /\ LET r == DecodeName(msgs[m], <<>>, name)
       IN  last' = [op |-> "DecodeName", m |-> m, copying |-> FALSE,
                    err |-> r.err, out |-> <<name, r.out>>]
    /\ UNCHANGED <<msgs, made, pool, req, buf>>

InitRecords ==
    /\ msgs = [k \in 1..NumMsgs |-> NewMessage]
    /\ made = {1}
    /\ pool = {}
    /\ req = NewRequest
    /\ buf \in RecordPackets
    /\ last = NoCall

NextRecords ==
    \/ last.op = "none" /\ DoParseMessage(1, TRUE)
    \/ \E stop \in 0..MaxRecords : last.op # "none" /\ DoVisitResourceRecords(1, stop)
    \/ \E name \in DecodeNames(msgs[1]) : last.op # "none" /\ DoDecodeName(1, name)

\* a response is parsed into the message's own copy, then its records are
\* visited and names decoded, in any order and number
SpecRecords == InitRecords /\ [][NextRecords]_vars

----------------------------------------------------------------------------
(* The answer section read by RFC 1035 and not by the code *)

\* the name at index pos of p walked label by label: "ok" with end the index
\* after it (after the zero byte, or after a 2-byte pointer), "cut" when the
\* bytes end first, "bad" at a length byte of 64..191; plain: no label holds
\* a zero byte or a byte with both top bits set
RECURSIVE RefName(_, _)
RefName(p, pos) ==
    IF pos >= Len(p) THEN [st |-> "cut", end |-> pos, plain |-> TRUE]
    ELSE
    LET b == At(p, pos)
    IN  IF b = 0 THEN [st |-> "ok", end |-> pos + 1, plain |-> TRUE]
        ELSE IF IsPointer(b)
        THEN IF pos + 1 >= Len(p) THEN [st |-> "cut", end |-> pos, plain |-> TRUE]
             ELSE [st |-> "ok", end |-> pos + 2, plain |-> TRUE]
        ELSE IF b > 63 THEN [st |-> "bad", end |-> pos, plain |-> TRUE]
        ELSE IF pos + 1 + b > Len(p) THEN [st |-> "cut", end |-> pos, plain |-> TRUE]
        ELSE LET r == RefName(p, pos + 1 + b)
             IN  [r EXCEPT !.plain = r.plain /\ \A k \in (pos + 1)..(pos + b) :
                                                    At(p, k) # 0 /\ ~IsPointer(At(p, k))]

\* n records from index pos of p: the complete ones, and whether all n were
\* there ("ok") or the bytes ran out ("cut")
RECURSIVE RefRecords(_, _, _)
RefRecords(p, pos, n) ==
    IF n = 0 THEN [st |-> "ok", recs |-> <<>>, plain |-> TRUE]
    ELSE
    LET nm == RefName(p, pos)
        e == nm.end
    IN
    IF nm.st # "ok" THEN [st |-> nm.st, recs |-> <<>>, plain |-> TRUE]
    ELSE IF Len(p) - e < 10 THEN [st |-> "cut", recs |-> <<>>, plain |-> TRUE]
    ELSE
    LET rdlength == U16(At(p, e + 8), At(p, e + 9))
    IN
    IF e + 10 + rdlength > Len(p) THEN [st |-> "cut", recs |-> <<>>, plain |-> TRUE]
    ELSE
    LET rr == [name |-> Slice(p, pos, e),
               typ |-> U16(At(p, e), At(p, e + 1)),
               class |-> U16(At(p, e + 2), At(p, e + 3)),
               ttl |-> <<U16(At(p, e + 4), At(p, e + 5)), U16(At(p, e + 6), At(p, e + 7))>>,
               data |-> Slice(p, e + 10, e + 10 + rdlength)]
        rest == RefRecords(p, e + 10 + rdlength, n - 1)
    IN  [st |-> rest.st, recs |-> <<rr>> \o rest.recs, plain |-> nm.plain /\ rest.plain]

\* m holds the parsed packet p: Raw is p, Question.Name the name of p
HoldsParsed(m, p) ==
    /\ m.Raw = p
    /\ WellFormedQuery(p)
    /\ m.Name = [buf |-> "Raw", off |-> 12, len |-> LabelsAt(p, 12).end - 11]
    /\ m.ANCount = U16(At(p, 6), At(p, 7))

\* what C4 says of a visit of m that f stops at its stop-th call
VisitDelivers(m, p, err, stop, calls) ==
    LET ref == RefRecords(p, 12 + m.Name.len + 4, m.ANCount)
    IN  /\ m.ANCount = 0 => (err = "ErrInvalidAnswer" /\ calls = <<>>)
        /\ (m.ANCount > 0 /\ ref.st = "ok") =>
              /\ err = "nil"
              /\ calls = IF stop \in 1..m.ANCount THEN SubSeq(ref.recs, 1, stop) ELSE ref.recs

\* C4: on a message holding the parsed packet, VisitResourceRecords returns
\* ErrInvalidAnswer without a call when ANCOUNT = 0; with ANCOUNT = N
\* well-formed records it calls f once per record, in packet order from
\* offset 12 + len(QNAME) + 4, with the record's name, type, class, ttl and
\* RDLENGTH bytes of rdata, delivers nothing after f returned false, and
\* returns nil.
C4_VisitDelivers ==
    (last.op = "VisitResourceRecords" /\ HoldsParsed(msgs[last.m], buf)) =>
        VisitDelivers(msgs[last.m], buf, last.err, last.out[1], last.out[2])

\* the same for records whose names hold no zero byte and no byte with both
\* top bits set inside a label
VisitDeliversPlainNames ==
    (/\ last.op = "VisitResourceRecords" /\ HoldsParsed(msgs[last.m], buf)
     /\ RefRecords(buf, 12 + msgs[last.m].Name.len + 4, msgs[last.m].ANCount).plain) =>
        VisitDelivers(msgs[last.m], buf, last.err, last.out[1], last.out[2])

\* two plain records were delivered, the second after a true from f
VisitDeliversPlainNamesSeen ==
    /\ last.op = "VisitResourceRecords" /\ HoldsParsed(msgs[last.m], buf)
    /\ RefRecords(buf, 12 + msgs[last.m].Name.len + 4, msgs[last.m].ANCount).plain
    /\ last.err = "nil" /\ Len(last.out[2]) = 2

\* C5: when the bytes of Raw run out before ANCOUNT records are complete (in
\* a name, in the 10 fixed bytes, in RDATA, or before the end of the question
\* section), VisitResourceRecords returns ErrInvalidAnswer, without a panic
\* and without a call for the cut record.
C5_TruncationIsError ==
    (/\ last.op = "VisitResourceRecords" /\ last.out[1] = 0
     /\ msgs[last.m].ANCount > 0
     /\ \/ Len(msgs[last.m].Raw) < 16 + msgs[last.m].Name.len
        \/ RefRecords(msgs[last.m].Raw, 16 + msgs[last.m].Name.len,
                      msgs[last.m].ANCount).st = "cut") =>
        /\ last.err = "ErrInvalidAnswer"
        /\ Len(msgs[last.m].Raw) >= 16 + msgs[last.m].Name.len =>
              last.out[2] = RefRecords(msgs[last.m].Raw, 16 + msgs[last.m].Name.len,
                                       msgs[last.m].ANCount).recs

\* C6: DecodeName ends for every name and every Raw: it returns, it never
\* loops for ever on a pointer chain that comes back to an offset or leaves
\* Raw, and it never reads outside Raw.
C6_DecodeTerminates ==
    last.op = "DecodeName" => last.err \notin {"hang", "panic"}

----------------------------------------------------------------------------
(* AppendMessage *)

\* for k := j; k >= i; k-- { if dst[k] == '.' { dst[k] = n; n = 0 } else { n++ } }
\* with n a byte
RECURSIVE Backfill(_, _, _, _)
Backfill(dst, k, i, n) ==
    IF k < i THEN dst
    ELSE IF At(dst, k) = Dot THEN Backfill([dst EXCEPT ![k + 1] = n], k - 1, i, 0)
    ELSE Backfill(dst, k - 1, i, (n + 1) % 256)

\* AppendMessage(dst, msg), b being the caller's buffer msg.Question.Name may
\* view
AppendMessage(dst, m, b) ==
    LET header == <<Hi(m.ID), Lo(m.ID), Hi(m.Bits), Lo(m.Bits),
                    Hi(m.QDCount), Lo(m.QDCount), Hi(m.ANCount), Lo(m.ANCount),
                    Hi(m.NSCount), Lo(m.NSCount), Hi(m.ARCount), Lo(m.ARCount)>>
        d1 == dst \o header
        i == Len(d1)
        j == i + Len(m.Domain)
        qname == IF m.Name.buf # "nil" THEN d1 \o NameBytes(m, b)
                 ELSE Append(Backfill(d1 \o <<Dot>> \o m.Domain, j, i, 0), 0)
    IN  IF m.QDCount # 0
        THEN qname \o <<Hi(m.Type), Lo(m.Type)>> \o <<Hi(m.Class), Lo(m.Class)>>
        ELSE d1

----------------------------------------------------------------------------
(* The legacy Request: ParseRequest, AppendRequest *)

\* a | b on bytes
RECURSIVE BitOr(_, _)
BitOr(a, b) ==
    IF a = 0 THEN b
    ELSE IF b = 0 THEN a
    ELSE (IF a % 2 = 1 \/ b % 2 = 1 THEN 1 ELSE 0) + 2 * BitOr(a \div 2, b \div 2)

\* x << k on a byte
Shl8(x, k) == (x * (2 ^ k)) % 256

ParseRequest(r, payload) ==
    IF Len(payload) < 12 THEN [req |-> r, err |-> "ErrInvalidHeader"]
    ELSE
    LET b2 == At(payload, 2)
        b3 == At(payload, 3)
        r1 == [r EXCEPT
                 !.ID = U16(At(payload, 0), At(payload, 1)),
                 !.RD = b2 % 2,
                 !.TC = (b2 \div 2) % 2,
                 !.AA = (b2 \div 4) % 2,
                 !.Opcode = (b2 \div 8) % 16,
                 !.QR = (b2 \div 128) % 2,
                 !.RCODE = b3 % 16,
                 !.Z = (b3 \div 16) % 8,
                 !.RA = (b3 \div 128) % 2,
                 !.QDCount = U16(At(payload, 4), At(payload, 5)),
                 !.ANCount = U16(At(payload, 6), At(payload, 7)),
                 !.NSCount = U16(At(payload, 8), At(payload, 9)),
                 !.ARCount = U16(At(payload, 10), At(payload, 11))]
    IN
    IF r1.QDCount # 1 THEN [req |-> r1, err |-> "ErrInvalidHeader"]
    ELSE
    LET q == Slice(payload, 12, Len(payload))
        i == ScanZero(q)
    IN
    IF i + 5 > Len(q) THEN [req |-> r1, err |-> "ErrInvalidQuestion"]
    ELSE [req |-> [r1 EXCEPT !.Name = Slice(q, 0, i + 1),
                             !.Class = U16(At(q, i + 3), At(q, i + 4)),
                             !.Type = U16(At(q, i + 1), At(q, i + 2))],
          err |-> "nil"]

\* header[3]: b = req.Header.RA << (7 - 0); b |= req.Header.Z << (7 - 1);
\* b |= byte(req.Header.RCODE) << (7 - (4 + 3))
RequestByte3(r) == BitOr(BitOr(Shl8(r.RA, 7), Shl8(r.Z, 6)), Shl8(r.RCODE, 0))

\* header[2]: QR << 7 | Opcode << 3 | AA << 2 | TC << 1 | RD
RequestByte2(r) ==
    BitOr(BitOr(BitOr(BitOr(Shl8(r.QR, 7), Shl8(r.Opcode, 3)), Shl8(r.AA, 2)),
                Shl8(r.TC, 1)), r.RD)

AppendRequest(dst, r) ==
    LET header == <<Hi(r.ID), Lo(r.ID), RequestByte2(r), RequestByte3(r),
                    Hi(r.QDCount), Lo(r.QDCount), Hi(r.ANCount), Lo(r.ANCount),
                    Hi(r.NSCount), Lo(r.NSCount), Hi(r.ARCount), Lo(r.ARCount)>>
        d1 == dst \o header
    IN  IF r.QDCount # 0
        THEN d1 \o r.Name \o <<Hi(r.Type), Lo(r.Type)>> \o <<Hi(r.Class), Lo(r.Class)>>
        ELSE d1

\* err := ParseRequest(req, buf)
DoParseRequest ==
    /\ Running
    /\ LET r == ParseRequest(req, buf)
       IN  /\ req' = r.req
           /\ last' = [op |-> "ParseRequest", m |-> 0, copying |-> FALSE,
                       err |-> r.err, out |-> <<>>]
    /\ UNCHANGED <<msgs, made, pool, buf>>

\* AppendRequest(nil, req), the request having just been parsed
DoAppendRequest ==
    /\ Running
    /\ last.op = "ParseRequest" /\ last.err = "nil"
    /\ last' = [op |-> "AppendRequest", m |-> 0, copying |-> FALSE, err |-> "nil",
                out |-> AppendRequest(<<>>, req)]
    /\ UNCHANGED <<msgs, made, pool, req, buf>>

\* AppendMessage(nil, msgs[m]), the message having just been parsed
DoAppendMessage(m) ==
    /\ Running
    /\ Held(m)
    /\ last.op = "ParseMessage" /\ last.err = "nil" /\ last.m = m
    /\ last' = [op |-> "AppendMessage", m |-> m, copying |-> last.copying, err |-> "nil",
                out |-> AppendMessage(<<>>, msgs[m], buf)]
    /\ UNCHANGED <<msgs, made, pool, req, buf>>

\* flag words: none, each flag bit alone, all, and a usual response
FlagWords == {0, 65535, 34179} \cup {2 ^ k : k \in 0..15}

HeaderPackets ==
    {Hdr(id, bits, qd, an, ns, ar) \o QuestionABC :
        id \in {4660, 65535}, bits \in FlagWords, qd \in {1, 2},
        an \in {0, 258}, ns \in {0, 3}, ar \in {0, 1029}}

InitHeader ==
    /\ msgs = [k \in 1..NumMsgs |-> NewMessage]
    /\ made = {1}
    /\ pool = {}
    /\ req = NewRequest
    /\ buf \in HeaderPackets
    /\ last = NoCall

NextHeader ==
    \/ DoParseRequest
    \/ DoAppendRequest
    \/ \E copying \in BOOLEAN : DoParseMessage(1, copying)
    \/ DoAppendMessage(1)

\* a header is decoded and encoded again, in both representations
SpecHeader == InitHeader /\ [][NextHeader]_vars

\* C10: header encode is the inverse of header decode in both
\* representations: after ParseRequest then AppendRequest, and after
\* ParseMessage then AppendMessage, the 12 header bytes written are the 12
\* header bytes read (so both write the same bytes for the same header).
C10_HeaderRoundTrip ==
    (last.op \in {"AppendRequest", "AppendMessage"}) =>
        SubSeq(last.out, 1, 12) = SubSeq(buf, 1, 12)

\* the packed flag word alone does round-trip
MessageHeaderRoundTrip ==
    last.op = "AppendMessage" => last.out = buf

----------------------------------------------------------------------------
(* DecodeName of the pointer to the question name *)

\* the 2-byte pointer to offset 12, where the question name begins
QuestionPointer == <<192, 12>>

\* a question name whose one label has the length byte 192: the bytes 0x0c
\* and 191 letters, then the terminator
PointerLikeName == <<192, 12>> \o [k \in 1..191 |-> 97] \o <<0>>

\* queries over every enumerated name, and the one with the long label
DecodePackets ==
    {QueryHdr \o n \o <<0, 1, 0, 1>> : n \in SeqsUpTo(NameAlphabet, MaxName)}
    \cup {QueryHdr \o PointerLikeName \o <<0, 1, 0, 1>>}

\* the last call populated its message: SetQustion, or a ParseMessage that
\* returned nil
Populated ==
    \/ last.op = "SetQustion"
    \/ last.op = "ParseMessage" /\ last.err = "nil"

InitDecode ==
    /\ msgs \in [1..NumMsgs -> {NewMessage}] \cup {[k \in 1..NumMsgs |-> UsedMessage]}
    /\ made = {1}
    /\ pool = {}
    /\ req = NewRequest
    /\ buf \in DecodePackets
    /\ last = NoCall

NextDecode ==
    \/ \E copying \in BOOLEAN : DoParseMessage(1, copying)
    \/ \E d \in Domains : DoSetQustion(1, d, 1, 1, 48879)
    \/ Populated /\ DoDecodeName(1, QuestionPointer)

\* a message, fresh or used before, is populated by ParseMessage in either
\* copy mode or by SetQustion, and the pointer to its question name decoded
SpecDecode == InitDecode /\ [][NextDecode]_vars

\* the length bytes of the labels of the name nm, walked from index i
RECURSIVE LabelLengths(_, _)
LabelLengths(nm, i) ==
    IF i >= Len(nm) \/ At(nm, i) = 0 THEN {}
    ELSE {At(nm, i)} \cup LabelLengths(nm, i + At(nm, i) + 1)

\* DecodeName(nil, QuestionPointer) right after the message was populated:
\* what it returned, what the general path makes of the same message, and
\* the cached Domain are one and the same
FastIsGeneral ==
    LET m == msgs[last'.m]
        g == DecodeNameGeneral(m, <<>>, QuestionPointer)
    IN  /\ last'.err = "nil"
        /\ g.err = "nil"
        /\ last'.out[2] = g.out
        /\ g.out = m.Domain

\* C11: for every message populated by a successful ParseMessage (either
\* copy mode) or by SetQustion, DecodeName of the 2-byte name [0xC0, 0x0C]
\* appends exactly the bytes the general pointer-chasing path produces by
\* walking Raw from offset 12, and both equal the cached Domain.
C11_FastPathIsGeneralPath ==
    [][(Populated /\ last'.op = "DecodeName" /\ last'.out[1] = QuestionPointer)
          => FastIsGeneral]_vars

\* the message holds its own copy of the packet the question came in, and no
\* label's length byte reads as a pointer
OwnCopyPlainLengths ==
    /\ last.op = "SetQustion" \/ last.copying
    /\ \A n \in LabelLengths(NameBytes(msgs[last.m], buf), 0) : ~IsPointer(n)

\* on such a message the two paths and Domain do agree
FastIsGeneralOnOwnCopy ==
    [][(Populated /\ OwnCopyPlainLengths
           /\ last'.op = "DecodeName" /\ last'.out[1] = QuestionPointer)
          => FastIsGeneral]_vars

\* the pointer was decoded on a message SetQustion filled, on one parsed
\* into its own copy, and on one parsed in place
DecodedAfterSetQustion == ~(last.op = "DecodeName" /\ msgs[1].ID = 48879)
DecodedAfterCopy ==
    ~(last.op = "DecodeName" /\ msgs[1].ID = 4660 /\ msgs[1].Raw = buf)
DecodedInPlace ==
    ~(last.op = "DecodeName" /\ msgs[1].ID = 4660 /\ msgs[1].Raw # buf)

====
